---------------------------- MODULE Spec2Model ----------------------------
(***************************************************************************)
(* Model of the Gaussian estimators of frechet_music_distance              *)
(* (MaxLikelihoodEstimator, LeoditWolfEstimator) and of the segmenting     *)
(* loop of CLaMP2Extractor.extract_feature.                                *)
(*                                                                         *)
(* Floating point numbers are modelled in exact arithmetic as reduced      *)
(* fractions [n, d]; the three non-finite floats are the fractions with    *)
(* d = 0: NaN = 0/0, +inf = 1/0, -inf = -1/0 (signed zeros are not         *)
(* modelled).  An ndarray is a record [shape, data]: shape <<>> (0-d),     *)
(* <<D>> or <<R, C>>; data is always kept as a sequence of rows.           *)
(***************************************************************************)
EXTENDS Integers, Sequences, FiniteSets, TLC

\* ------------------------------------------------------------ bounds ----
\* largest number of rows (samples) of a features matrix
MaxN == 3
\* largest number of columns (dimensionality D) of a features matrix
MaxD == 3
\* largest number of estimate_parameters calls made on one estimator
MaxCalls == 2

\* config.PATCH_LENGTH, the largest number of patches of one segment (the
\* config module sets it; the model takes a small one)
PATCH_LENGTH == 4
\* largest number of patches of an encoded piece
MaxPatches == 16

\* "block_size: int = 1000"
DefaultBlockSize == 1000

\* -------------------------------------------------- float arithmetic ----
RECURSIVE GCD(_, _)
GCD(a, b) == IF b = 0 THEN a ELSE GCD(b, a % b)

Abs(x) == IF x < 0 THEN -x ELSE x

Sign(x) == IF x < 0 THEN -1 ELSE IF x > 0 THEN 1 ELSE 0

\* the float n/d, reduced; x/0 is NaN or an infinity, as IEEE division gives
RNorm(n, d) ==
    IF d = 0 THEN [n |-> Sign(n), d |-> 0]
    ELSE LET g == GCD(Abs(n), Abs(d))
         IN  [n |-> Sign(d) * (n \div g), d |-> Abs(d) \div g]

R(k) == [n |-> k, d |-> 1]
NaN == [n |-> 0, d |-> 0]
PosInf == [n |-> 1, d |-> 0]
NegInf == [n |-> -1, d |-> 0]

IsFinite(a) == a.d # 0

\* a + b; inf + -inf and anything + NaN are NaN.  (The common factor of the
\* denominators is taken out first to keep the integers small.)
RAdd(a, b) ==
    IF a.d = 0 /\ b.d = 0
    THEN (IF a = b THEN a ELSE NaN)
    ELSE LET g == GCD(a.d, b.d)
         IN  IF g = 0 THEN RNorm(a.n * b.d + b.n * a.d, 0)
             ELSE RNorm(a.n * (b.d \div g) + b.n * (a.d \div g), (a.d \div g) * b.d)

RNeg(a) == [n |-> -a.n, d |-> a.d]

RSub(a, b) == RAdd(a, RNeg(b))

\* a * b; 0 * inf and anything * NaN are NaN
RMul(a, b) ==
    IF a.d = 0 \/ b.d = 0
    THEN RNorm(Sign(a.n) * Sign(b.n), 0)
    ELSE LET g1 == GCD(Abs(a.n), b.d)
             g2 == GCD(Abs(b.n), a.d)
         IN  RNorm((a.n \div g1) * (b.n \div g2), (a.d \div g2) * (b.d \div g1))

\* 1/a: 1/0 = inf, 1/inf = 0, 1/NaN = NaN
RInv(a) == RNorm(a.d, a.n)

RDiv(a, b) == RMul(a, RInv(b))

RLess(a, b) == a.n * b.d < b.n * a.d

RMin(a, b) == IF RLess(b, a) THEN b ELSE a

\* a ** 2
RSquare(a) == RMul(a, a)

\* np.sum of a sequence of floats
RSum(s) ==
    LET acc[i \in 0..Len(s)] == IF i = 0 THEN R(0) ELSE RAdd(acc[i - 1], s[i])
    IN  acc[Len(s)]

\* ------------------------------------------------------------ arrays ----
\* an ndarray of two axes; data holds its rows
Array2(rows, cols, data) == [shape |-> <<rows, cols>>, data |-> data]

\* an ndarray of one axis
Array1(len, row) == [shape |-> <<len>>, data |-> <<row>>]

\* a 0-d ndarray
Scalar(x) == [shape |-> <<>>, data |-> <<<<x>>>>]

\* the value of a name that is not bound (the call raised)
NoArray == [shape |-> <<>>, data |-> <<>>]

At(a, i, j) == a.data[i][j]

\* ndarray.T of a 2-d array
Transpose(a) ==
    Array2(a.shape[2], a.shape[1],
           [i \in 1..a.shape[2] |-> [j \in 1..a.shape[1] |-> At(a, j, i)] \o <<>>] \o <<>>)

\* ndarray.squeeze() of a 2-d array: axes of length one are removed
Squeeze(a) ==
    IF a.shape = <<1, 1>> THEN Scalar(At(a, 1, 1))
    ELSE IF a.shape[1] = 1 THEN Array1(a.shape[2], a.data[1])
    ELSE IF a.shape[2] = 1
         THEN Array1(a.shape[1], [i \in 1..a.shape[1] |-> At(a, i, 1)] \o <<>>)
    ELSE a

\* every entry of the array is a finite float
AllFinite(a) ==
    \A i \in 1..Len(a.data) : \A j \in 1..Len(a.data[i]) : IsFinite(At(a, i, j))

\* ---------------------------------------------------------- features ----
\* What a caller passes as features: the rows, and the number of columns
\* (which a matrix of zero rows still has).  Rows of other lengths make it
\* a ragged nested list.
Features(rows, cols) == [rows |-> rows, cols |-> cols]

Homogeneous(f) == \A i \in 1..Len(f.rows) : Len(f.rows[i]) = f.cols

\* np.asarray(features), for a homogeneous argument
AsArray(f) == Array2(Len(f.rows), f.cols, f.rows)

\* np.mean(a, axis=0): the sum of each column over the number of rows
NpMean0(a) ==
    Array1(a.shape[2],
           [j \in 1..a.shape[2] |->
               RDiv(RSum([i \in 1..a.shape[1] |-> At(a, i, j)] \o <<>>), R(a.shape[1]))] \o <<>>)

\* ------------------------------------------------------------ np.cov ----
\* "avg = average(X, axis=1)": the mean of each row (variable) of X
RowMeans(X) ==
    [v \in 1..X.shape[1] |-> RDiv(RSum(X.data[v]), R(X.shape[2]))] \o <<>>

\* "X -= avg[:, None]"
SubCol(X, avg) ==
    Array2(X.shape[1], X.shape[2],
           [v \in 1..X.shape[1] |-> [o \in 1..X.shape[2] |->
               RSub(At(X, v, o), avg[v])] \o <<>>] \o <<>>)

\* "fact = X.shape[1] - ddof", and "if fact <= 0: warn; fact = 0.0"
Fact(nobs, ddof) == IF nobs - ddof <= 0 THEN R(0) ELSE R(nobs - ddof)

\* np.dot(X, X.T)[a][b]: the product of two rows of X
RowDot(X, a, b) ==
    RSum([o \in 1..X.shape[2] |-> RMul(At(X, a, o), At(X, b, o))] \o <<>>)

\* "c = dot(X, X.T)", then "c *= np.true_divide(1, fact)"
ScaledGram(X, w) ==
    Array2(X.shape[1], X.shape[1],
           [i \in 1..X.shape[1] |-> [j \in 1..X.shape[1] |->
               RMul(RowDot(X, i, j), w)] \o <<>>] \o <<>>)

\* np.cov of the variables-by-observations array X, squeezed
NpCovOf(X, ddof) ==
    IF X.shape[1] = 0 THEN Array2(0, 0, <<>>)
    ELSE Squeeze(ScaledGram(SubCol(X, RowMeans(X)),
                            RDiv(R(1), Fact(X.shape[2], ddof))))

\* np.cov(m, rowvar=False, ddof=ddof) of a 2-d array m.  numpy before 2.0
\* transposes m "if not rowvar and X.shape[0] != 1", numpy 2 whenever m is
\* 2-d; which numpy is installed is not fixed by the repository (np2).
NpCovDdof(m, np2, ddof) ==
    NpCovOf(IF np2 \/ m.shape[1] # 1 THEN Transpose(m) ELSE m, ddof)

\* a np.cov normalised by N instead of N - 1
NpCovBiased(m, np2) == NpCovDdof(m, np2, 0)

\* np.cov(features, rowvar=False): ddof defaults to 1
NpCov(m, np2) == NpCovDdof(m, np2, 1)

\* ------------------------------------------ sklearn.covariance.LedoitWolf
\* slice(block_size * i, block_size * (i + 1)) of D columns: the columns
\* lo..hi, 1-based (a slice is cut at the end of the axis)
BlockSlice(i, block_size, D) ==
    [lo |-> block_size * i + 1,
     hi |-> IF block_size * (i + 1) < D THEN block_size * (i + 1) ELSE D]

\* the slice "block_size * n_splits :" of D columns
BlockRest(n_splits, block_size, D) == [lo |-> block_size * n_splits + 1, hi |-> D]

\* np.dot(Y.T[rows], Y[:, cols])[a][b]: the product of two columns of Y
ColDot(Y, a, b) ==
    RSum([n \in 1..Y.shape[1] |-> RMul(At(Y, n, a), At(Y, n, b))] \o <<>>)

\* np.sum(np.dot(Y.T[rows], Y[:, cols])) of a 2-d array Y
SumDot(Y, rows, cols) ==
    RSum([a \in 1..(rows.hi - rows.lo + 1) |->
        RSum([b \in 1..(cols.hi - cols.lo + 1) |->
            ColDot(Y, rows.lo + a - 1, cols.lo + b - 1)] \o <<>>)] \o <<>>)

\* np.sum(np.dot(Y.T[rows], Y[:, cols]) ** 2)
SumDotSq(Y, rows, cols) ==
    RSum([a \in 1..(rows.hi - rows.lo + 1) |->
        RSum([b \in 1..(cols.hi - cols.lo + 1) |->
            RSquare(ColDot(Y, rows.lo + a - 1, cols.lo + b - 1))] \o <<>>)] \o <<>>)

\* one term of the blocked sums: SumDotSq for delta_, SumDot for beta_
BlockTerm(Y, rows, cols, squared) ==
    IF squared THEN SumDotSq(Y, rows, cols) ELSE SumDot(Y, rows, cols)

\* the sum over the blocks i, j = 0 .. n_splits - 1 and the blocks right of
\* them: the first loop nest of ledoit_wolf_shrinkage
BlockedSumFull(Y, block_size, squared) ==
    LET D        == Y.shape[2]
        n_splits == D \div block_size
        rest     == BlockRest(n_splits, block_size, D)
    IN  RSum([i \in 1..n_splits |->
            RAdd(RSum([j \in 1..n_splits |->
                     BlockTerm(Y, BlockSlice(i - 1, block_size, D),
                               BlockSlice(j - 1, block_size, D), squared)] \o <<>>),
                 BlockTerm(Y, BlockSlice(i - 1, block_size, D), rest, squared))] \o <<>>)

\* the sum over the blocks below them: the second loop
BlockedSumBottom(Y, block_size, squared) ==
    LET D        == Y.shape[2]
        n_splits == D \div block_size
        rest     == BlockRest(n_splits, block_size, D)
    IN  RSum([j \in 1..n_splits |->
            BlockTerm(Y, rest, BlockSlice(j - 1, block_size, D), squared)] \o <<>>)

\* the corner block, added after the loops
BlockedSumCorner(Y, block_size, squared) ==
    LET D    == Y.shape[2]
        rest == BlockRest(D \div block_size, block_size, D)
    IN  BlockTerm(Y, rest, rest, squared)

\* blocked sums that leave out the blocks below the full ones
BlockedSumNoBottom(Y, block_size, squared) ==
    RAdd(BlockedSumFull(Y, block_size, squared),
         BlockedSumCorner(Y, block_size, squared))

\* beta_ (of X2, not squared) and delta_ before its division (of X,
\* squared), as the loops of ledoit_wolf_shrinkage add them up
BlockedSum(Y, block_size, squared) ==
    RAdd(RAdd(BlockedSumFull(Y, block_size, squared),
              BlockedSumBottom(Y, block_size, squared)),
         BlockedSumCorner(Y, block_size, squared))

\* X ** 2, elementwise
Square(X) ==
    Array2(X.shape[1], X.shape[2],
           [i \in 1..X.shape[1] |-> [j \in 1..X.shape[2] |->
               RMul(At(X, i, j), At(X, i, j))] \o <<>>] \o <<>>)

\* X - v for a 2-d array X and a vector v (broadcast over the rows)
SubRow(X, v) ==
    Array2(X.shape[1], X.shape[2],
           [i \in 1..X.shape[1] |-> [j \in 1..X.shape[2] |->
               RSub(At(X, i, j), At(v, 1, j))] \o <<>>] \o <<>>)

\* emp_cov_trace = np.sum(X2, axis=0) / n_samples
EmpCovTrace(X2) ==
    [j \in 1..X2.shape[2] |->
        RDiv(RSum([i \in 1..X2.shape[1] |-> At(X2, i, j)] \o <<>>),
             R(X2.shape[1]))] \o <<>>

\* beta = 1.0 / (n_features * n_samples) * (beta_ / n_samples - delta_)
ShrinkageBeta(n_samples, n_features, beta_, delta_) ==
    RMul(RDiv(R(1), R(n_features * n_samples)),
         RSub(RDiv(beta_, R(n_samples)), delta_))

\* delta = delta_ - 2.0 * mu * emp_cov_trace.sum() + n_features * mu**2,
\* then "delta /= n_features"
ShrinkageDelta(n_features, delta_, mu, trace_sum) ==
    RDiv(RAdd(RSub(delta_, RMul(RMul(R(2), mu), trace_sum)),
              RMul(R(n_features), RSquare(mu))),
         R(n_features))

\* "shrinkage = 0 if beta == 0 else beta / delta"
ShrinkageRatio(beta, delta) ==
    IF beta = R(0) THEN R(0) ELSE RDiv(beta, delta)

\* a shrinkage without "beta = min(beta, delta)"
ShrinkageNoMin(beta, delta) == ShrinkageRatio(beta, delta)

\* "beta = min(beta, delta)", then the ratio
ShrinkageMin(beta, delta) == ShrinkageRatio(RMin(beta, delta), delta)

\* the end of ledoit_wolf_shrinkage, from emp_cov_trace.sum() and the two
\* blocked sums (delta_ already divided by n_samples ** 2)
ShrinkageOfSums(n_samples, n_features, trace_sum, beta_, delta_) ==
    ShrinkageMin(ShrinkageBeta(n_samples, n_features, beta_, delta_),
                 ShrinkageDelta(n_features, delta_,
                                RDiv(trace_sum, R(n_features)), trace_sum))

\* ledoit_wolf_shrinkage(X, assume_centered=True, block_size) for a 2-d X
\* of more than one column
LedoitWolfShrinkage(X, block_size) ==
    ShrinkageOfSums(X.shape[1], X.shape[2],
                    RSum(EmpCovTrace(Square(X))),
                    BlockedSum(Square(X), block_size, FALSE),
                    RDiv(BlockedSum(X, block_size, TRUE),
                         R(X.shape[1] * X.shape[1])))

\* empirical_covariance(X, assume_centered=True): X.T @ X / n_samples
EmpiricalCovariance(X) ==
    Array2(X.shape[2], X.shape[2],
           [i \in 1..X.shape[2] |-> [j \in 1..X.shape[2] |->
               RDiv(ColDot(X, i, j), R(X.shape[1]))] \o <<>>] \o <<>>)

\* np.trace(a) / n_features
MeanTrace(a) ==
    RDiv(RSum([i \in 1..a.shape[1] |-> At(a, i, i)] \o <<>>), R(a.shape[1]))

\* shrunk_cov = (1.0 - shrinkage) * emp_cov, then
\* "shrunk_cov.flat[:: n_features + 1] += shrinkage * mu"
ShrunkCov(emp_cov, mu, shrinkage) ==
    [covariance |-> Array2(emp_cov.shape[1], emp_cov.shape[2],
         [i \in 1..emp_cov.shape[1] |-> [j \in 1..emp_cov.shape[2] |->
             IF i = j
             THEN RAdd(RMul(RSub(R(1), shrinkage), At(emp_cov, i, j)),
                       RMul(shrinkage, mu))
             ELSE RMul(RSub(R(1), shrinkage), At(emp_cov, i, j))] \o <<>>] \o <<>>),
     shrinkage  |-> shrinkage]

\* "mu = np.sum(np.trace(emp_cov)) / n_features" and the shrunk covariance
ShrunkCovOf(emp_cov, shrinkage) ==
    ShrunkCov(emp_cov, MeanTrace(emp_cov), shrinkage)

\* _ledoit_wolf(X, assume_centered=True, block_size): (shrunk_cov, shrinkage);
\* one feature: "return np.atleast_2d((X**2).mean()), 0.0"
LedoitWolfCov(X, block_size) ==
    IF X.shape[2] = 1
    THEN [covariance |-> Array2(1, 1,
              <<<<RDiv(RSum([i \in 1..X.shape[1] |-> RSquare(At(X, i, 1))] \o <<>>),
                       R(X.shape[1]))>>>>),
          shrinkage  |-> R(0)]
    ELSE ShrunkCovOf(EmpiricalCovariance(X), LedoitWolfShrinkage(X, block_size))

\* validate_data / check_array: a 2-d array of finite floats with at least
\* one sample and one feature, or ValueError
CheckArrayOk(f) ==
    /\ Homogeneous(f)
    /\ Len(f.rows) >= 1
    /\ f.cols >= 1
    /\ AllFinite(AsArray(f))

\* the attributes of a LedoitWolf object that was never fitted
Unfitted ==
    [location_ |-> NoArray, covariance_ |-> NoArray, shrinkage_ |-> NaN]

\* fit, first half: "self.location_ = X.mean(0)"
FitLocation(m, f) == [m EXCEPT !.location_ = NpMean0(AsArray(f))]

\* fit, second half: "_ledoit_wolf(X - self.location_, ...)", then
\* "self.shrinkage_ = shrinkage" and "self._set_covariance(covariance)".
\* (precision_, the pseudo-inverse _set_covariance also stores, is never
\* read by the estimator and is left out.)
SetCovariance(m, lw) ==
    [m EXCEPT !.covariance_ = lw.covariance, !.shrinkage_ = lw.shrinkage]

\* fit: "_ledoit_wolf(X - self.location_, ...)" and the assignments
FitCovariance(m, f, block_size) ==
    SetCovariance(m, LedoitWolfCov(SubRow(AsArray(f), m.location_), block_size))

\* a fit that keeps the location of an earlier fit of the same width
LedoitWolfFitWarm(m, f, block_size) ==
    IF m.location_.shape = <<f.cols>>
    THEN FitCovariance(m, f, block_size)
    ELSE FitCovariance(FitLocation(m, f), f, block_size)

\* LedoitWolf.fit(X) on validated data: the attributes it leaves
LedoitWolfFit(m, f, block_size) ==
    FitCovariance(FitLocation(m, f), f, block_size)

\* ---------------------------------------------------------- outcomes ----
Returned(mean, cov) == [status |-> "returned", mean |-> mean, cov |-> cov]
Raised(error) == [status |-> error, mean |-> NoArray, cov |-> NoArray]
NotCalled == [status |-> "none", mean |-> NoArray, cov |-> NoArray]

\* MaxLikelihoodEstimator.estimate_parameters: np.mean and np.cov convert
\* the argument with np.asarray, which raises ValueError for a ragged list
\* (numpy >= 1.24); nothing else is validated.
MLEstimateParameters(f, np2) ==
    IF ~Homogeneous(f) THEN Raised("ValueError")
    ELSE Returned(NpMean0(AsArray(f)), NpCov(AsArray(f), np2))

\* ------------------------------------------------------------ inputs ----
\* The embedding vectors the matrices are built from, for dimensionality
\* d: the zero vector, the unit vectors and 1 2 ... d.
SampleRows(d) ==
    { [j \in 1..d |-> R(0)] \o <<>>, [j \in 1..d |-> R(j)] \o <<>> }
    \cup { [j \in 1..d |-> R(IF j = k THEN 1 ELSE 0)] \o <<>> : k \in 1..d }

\* the position of a sample row in a fixed enumeration of SampleRows(d)
RowRank(r) ==
    LET d == Len(r)
    IN  IF \A j \in 1..d : r[j] = R(0) THEN 0
        ELSE IF \E k \in 1..d : \A j \in 1..d : r[j] = R(IF j = k THEN 1 ELSE 0)
             THEN CHOOSE k \in 1..d : \A j \in 1..d : r[j] = R(IF j = k THEN 1 ELSE 0)
        ELSE d + 1

\* The N x D matrices of sample rows, 1 <= N <= MaxN, 1 <= D <= MaxD.  Rows
\* are samples and carry no order, so one matrix stands for every
\* reordering of its rows: the one whose rows are sorted by rank.
ValidInputs ==
    UNION { { Features(g, d) :
                g \in { h \in [1..n -> SampleRows(d)] :
                          \A i \in 1..(n - 1) : RowRank(h[i]) <= RowRank(h[i + 1]) } } :
            <<n, d>> \in (1..MaxN) \X (1..MaxD) }

\* matrices of zero rows
EmptyInputs == { Features(<<>>, d) : d \in 1..MaxD }

\* one- and two-row matrices with a non-finite first entry
NonFiniteInputs ==
    { Features(<<<<x>> \o [j \in 1..(d - 1) |-> R(1)] \o <<>>>>
               \o [i \in 1..(n - 1) |-> [j \in 1..d |-> R(0)] \o <<>>] \o <<>>, d) :
        <<x, n, d>> \in {NaN, PosInf, NegInf} \X (1..2) \X (1..MaxD) }

\* nested lists whose second row is one entry longer than the first
RaggedInputs ==
    { Features(<<[j \in 1..d |-> R(1)] \o <<>>, [j \in 1..(d + 1) |-> R(0)] \o <<>>>>, d) :
        d \in 1..MaxD }

InvalidInputs == EmptyInputs \cup NonFiniteInputs \cup RaggedInputs

Inputs == ValidInputs \cup InvalidInputs

\* the reference corpora fitted before the candidate: for every width, the
\* two rows 1 1 1 ... and 1 0 1 ...
RefInputs ==
    { Features(<<[j \in 1..d |-> R(1)] \o <<>>, [j \in 1..d |-> R(j % 2)] \o <<>>>>, d) :
        d \in 1..MaxD }

\* block sizes below and at every dimensionality, and the default, which is
\* above them all
BlockSizes == (1..MaxD) \cup {DefaultBlockSize}

Estimators ==
    {[kind |-> "mle", block_size |-> 0]}
    \cup { [kind |-> "lw", block_size |-> b] : b \in BlockSizes }

Threads == {1, 2}

\* the matrices two threads pass at the same time: the valid ones of two
\* rows and at most two columns
ConcInputs == { f \in ValidInputs : Len(f.rows) = 2 /\ f.cols <= 2 }

\* the pairs A, B of the two threads: different matrices of one width (the
\* embeddings of one model)
ConcPairs ==
    { g \in [Threads -> ConcInputs] : g[1] # g[2] /\ g[1].cols = g[2].cols }

\* what a thread holds of a fit in progress: the covariance and shrinkage
\* _ledoit_wolf returned to it
NoLocal == [covariance |-> NoArray, shrinkage |-> NaN]

\* ------------------------------------------------------------- state ----
VARIABLES
    est,        \* the estimator object: its class and, for "lw", block_size
    np2,        \* whether the installed numpy is numpy 2 (it matters to
                \* np.cov alone, which only the "mle" estimator calls)
    model,      \* the attributes of self.model (a LedoitWolf), when "lw"
    features,   \* the caller's matrix of the latest call
    out,        \* what the latest call returned or raised
    calls,      \* the number of estimate_parameters calls made so far
    pc,         \* "reference": corpora are being fitted; "done": the
                \* candidate was fitted
    \* two threads in estimate_parameters of the one estimator
    tpc,        \* where each thread is
    tfeat,      \* the matrix each thread passed
    tlocal,     \* the locals of each thread's fit
    tmean,      \* the local "mean" of each thread
    tout,       \* what each thread's call returned or raised
    \* CLaMP2Extractor.extract_feature
    cpc,            \* where extract_feature is
    input_len,      \* len(input_data): the number of patches
    seg_i,          \* the loop variable i of the segmenting loop
    segment_list,   \* the segments: each the sequence of the indices
                    \* (1-based) of its patches in input_data
    model_inputs,   \* what get_music_features was called with, per segment:
                    \* the padded segment (0 is a pad row) and its mask
    feature_weights \* the weights of the segment features

estVars == <<est, np2, model>>
seqVars == <<features, out, calls, pc>>
thrVars == <<tpc, tfeat, tlocal, tmean, tout>>
clampVars == <<cpc, input_len, seg_i, segment_list, model_inputs, feature_weights>>
vars == <<estVars, seqVars, thrVars, clampVars>>

\* no sequential caller
SeqIdle ==
    /\ features = Features(<<>>, 0)
    /\ out = NotCalled
    /\ calls = 0
    /\ pc = "reference"

\* no threads
ThreadsIdle ==
    /\ tpc = [t \in Threads |-> "idle"]
    /\ tfeat = [t \in Threads |-> Features(<<>>, 0)]
    /\ tlocal = [t \in Threads |-> NoLocal]
    /\ tmean = [t \in Threads |-> NoArray]
    /\ tout = [t \in Threads |-> NotCalled]

\* no extraction
ClampIdle ==
    /\ cpc = "idle"
    /\ input_len = 0
    /\ seg_i = 0
    /\ segment_list = <<>>
    /\ model_inputs = <<>>
    /\ feature_weights = <<>>

\* the estimator as constructed
InitEstimator ==
    /\ est \in Estimators
    /\ np2 \in (IF est.kind = "mle" THEN BOOLEAN ELSE {TRUE})
    /\ model = Unfitted

Init == InitEstimator /\ SeqIdle /\ ThreadsIdle /\ ClampIdle

\* MaxLikelihoodEstimator.estimate_parameters(f)
MLCall(f) ==
    /\ est.kind = "mle"
    /\ features' = f
    /\ out' = MLEstimateParameters(f, np2)
    /\ calls' = calls + 1
    /\ UNCHANGED estVars

\* LeoditWolfEstimator.estimate_parameters(f): "results" is self.model,
\* which keeps what fit assigned
LWCall(f) ==
    /\ est.kind = "lw"
    /\ features' = f
    /\ IF CheckArrayOk(f)
       THEN /\ model' = LedoitWolfFit(model, f, est.block_size)
            /\ out' = Returned(model'.location_, model'.covariance_)
       ELSE /\ model' = model
            /\ out' = Raised("ValueError")
    /\ calls' = calls + 1
    /\ UNCHANGED <<est, np2>>

\* the engine fits a reference corpus
FitReference ==
    /\ pc = "reference"
    /\ calls < MaxCalls - 1
    /\ \E f \in RefInputs : MLCall(f) \/ LWCall(f)
    /\ pc' = "reference"
    /\ UNCHANGED <<thrVars, clampVars>>

\* the engine fits the candidate corpus
FitCandidate ==
    /\ pc = "reference"
    /\ \E f \in Inputs : MLCall(f) \/ LWCall(f)
    /\ pc' = "done"
    /\ UNCHANGED <<thrVars, clampVars>>

Next == FitReference \/ FitCandidate

Spec == Init /\ [][Next]_vars

\* ------------------------------------------- two threads, one estimator --
InitConc ==
    /\ InitEstimator /\ SeqIdle /\ ClampIdle
    /\ tfeat \in ConcPairs
    /\ tpc = [t \in Threads |-> "call"]
    /\ tlocal = [t \in Threads |-> NoLocal]
    /\ tmean = [t \in Threads |-> NoArray]
    /\ tout = [t \in Threads |-> NotCalled]

\* "mean = np.mean(features, axis=0)"
MLMean(t) ==
    /\ est.kind = "mle" /\ tpc[t] = "call"
    /\ IF Homogeneous(tfeat[t])
       THEN /\ tmean' = [tmean EXCEPT ![t] = NpMean0(AsArray(tfeat[t]))]
            /\ tpc' = [tpc EXCEPT ![t] = "cov"]
            /\ tout' = tout
       ELSE /\ tout' = [tout EXCEPT ![t] = Raised("ValueError")]
            /\ tpc' = [tpc EXCEPT ![t] = "done"]
            /\ tmean' = tmean
    /\ UNCHANGED <<estVars, seqVars, clampVars, tfeat, tlocal>>

\* "covariance = np.cov(features, rowvar=False)" and the return
MLCov(t) ==
    /\ est.kind = "mle" /\ tpc[t] = "cov"
    /\ tout' = [tout EXCEPT ![t] = Returned(tmean[t], NpCov(AsArray(tfeat[t]), np2))]
    /\ tpc' = [tpc EXCEPT ![t] = "done"]
    /\ UNCHANGED <<estVars, seqVars, clampVars, tfeat, tlocal, tmean>>

\* fit: the data is validated and "self.location_ = X.mean(0)"
LWFitLocation(t) ==
    /\ est.kind = "lw" /\ tpc[t] = "call"
    /\ IF CheckArrayOk(tfeat[t])
       THEN /\ model' = FitLocation(model, tfeat[t])
            /\ tpc' = [tpc EXCEPT ![t] = "fit_compute"]
            /\ tout' = tout
       ELSE /\ tout' = [tout EXCEPT ![t] = Raised("ValueError")]
            /\ tpc' = [tpc EXCEPT ![t] = "done"]
            /\ model' = model
    /\ UNCHANGED <<est, np2, seqVars, clampVars, tfeat, tlocal, tmean>>

\* fit: "_ledoit_wolf(X - self.location_, ...)" reads the attribute, which
\* is the mean of the matrix fitted last (of the same width as X)
LWFitCompute(t) ==
    /\ est.kind = "lw" /\ tpc[t] = "fit_compute"
    /\ tlocal' = [tlocal EXCEPT ![t] =
            LedoitWolfCov(SubRow(AsArray(tfeat[t]), model.location_),
                          est.block_size)]
    /\ tpc' = [tpc EXCEPT ![t] = "fit_assign"]
    /\ UNCHANGED <<estVars, seqVars, clampVars, tfeat, tmean, tout>>

\* fit: "self.shrinkage_ = shrinkage" and "self._set_covariance(covariance)"
LWFitAssign(t) ==
    /\ est.kind = "lw" /\ tpc[t] = "fit_assign"
    /\ model' = [model EXCEPT !.covariance_ = tlocal[t].covariance,
                              !.shrinkage_ = tlocal[t].shrinkage]
    /\ tpc' = [tpc EXCEPT ![t] = "read_location"]
    /\ UNCHANGED <<est, np2, seqVars, clampVars, tfeat, tlocal, tmean, tout>>

\* "mean = results.location_": results is self.model
LWReadLocation(t) ==
    /\ est.kind = "lw" /\ tpc[t] = "read_location"
    /\ tmean' = [tmean EXCEPT ![t] = model.location_]
    /\ tpc' = [tpc EXCEPT ![t] = "read_covariance"]
    /\ UNCHANGED <<estVars, seqVars, clampVars, tfeat, tlocal, tout>>

\* "cov = results.covariance_" and the return
LWReadCovariance(t) ==
    /\ est.kind = "lw" /\ tpc[t] = "read_covariance"
    /\ tout' = [tout EXCEPT ![t] = Returned(tmean[t], model.covariance_)]
    /\ tpc' = [tpc EXCEPT ![t] = "done"]
    /\ UNCHANGED <<estVars, seqVars, clampVars, tfeat, tlocal, tmean>>

NextConc ==
    \E t \in Threads :
        \/ MLMean(t)
        \/ MLCov(t)
        \/ LWFitLocation(t)
        \/ LWFitCompute(t)
        \/ LWFitAssign(t)
        \/ LWReadLocation(t)
        \/ LWReadCovariance(t)

SpecConc == InitConc /\ [][NextConc]_vars

\* ------------------------------------- CLaMP2Extractor.extract_feature --
\* input_data[lo:hi] (0-based, hi exclusive, cut at the ends as a slice is):
\* the indices, 1-based, of the patches lo + 1 .. hi
PatchSlice(lo, hi, n) ==
    [k \in 1..((IF hi < n THEN hi ELSE n) - lo) |-> lo + k] \o <<>>

\* input_data[-max_input_length:]: the last max_input_length patches, or
\* all of them when there are fewer
LastPatches(n, max_input_length) ==
    PatchSlice(IF n > max_input_length THEN n - max_input_length ELSE 0, n, n)

\* "[1]*input_segment.size(0)" followed by
\* "torch.zeros(max_input_length - input_segment.size(0))"
InputMasks(size, max_input_length) ==
    [k \in 1..size |-> 1] \o <<>> \o [k \in 1..(max_input_length - size) |-> 0] \o <<>>

\* the segment followed by PATCH_LENGTH - size rows of pad_token_id (a pad
\* row is written 0)
PadSegment(input_segment) ==
    input_segment \o [k \in 1..(PATCH_LENGTH - Len(input_segment)) |-> 0] \o <<>>

\* feature weights that always end with remain_chunk_len
FeatureWeightsWithRemainder(n, max_input_length) ==
    [k \in 1..(n \div max_input_length) |-> max_input_length] \o <<>>
        \o <<n % max_input_length>>

\* "[max_input_length] * full_chunk_cnt", and "+ [remain_chunk_len]" unless
\* remain_chunk_len == 0
FeatureWeights(n, max_input_length) ==
    IF n % max_input_length = 0
    THEN [k \in 1..(n \div max_input_length) |-> max_input_length] \o <<>>
    ELSE [k \in 1..(n \div max_input_length) |-> max_input_length] \o <<>>
             \o <<n % max_input_length>>

\* the patchilizer encoded the piece into input_len patches, and
\* "segment_list = []"
InitClamp ==
    /\ InitEstimator /\ SeqIdle /\ ThreadsIdle
    /\ cpc = "segment"
    /\ input_len \in 1..MaxPatches
    /\ seg_i = 0
    /\ segment_list = <<>>
    /\ model_inputs = <<>>
    /\ feature_weights = <<>>

\* one turn of "for i in range(0, len(input_data), max_input_length)":
\* "segment_list.append(input_data[i:i+max_input_length])"
AppendSegment ==
    /\ cpc = "segment" /\ seg_i < input_len
    /\ segment_list' = Append(segment_list,
                              PatchSlice(seg_i, seg_i + PATCH_LENGTH, input_len))
    /\ seg_i' = seg_i + PATCH_LENGTH
    /\ UNCHANGED <<estVars, seqVars, thrVars, cpc, input_len, model_inputs,
                   feature_weights>>

\* after the loop: "segment_list[-1] = input_data[-max_input_length:]"
ReplaceLastSegment ==
    /\ cpc = "segment" /\ seg_i >= input_len
    /\ segment_list' = [segment_list EXCEPT ![Len(segment_list)] =
                            LastPatches(input_len, PATCH_LENGTH)]
    /\ cpc' = "embed"
    /\ UNCHANGED <<estVars, seqVars, thrVars, input_len, seg_i, model_inputs,
                   feature_weights>>

\* one turn of "for input_segment in segment_list": the mask, the padding
\* and the call of get_music_features
EmbedSegment ==
    /\ cpc = "embed" /\ Len(model_inputs) < Len(segment_list)
    /\ model_inputs' = Append(model_inputs,
           [music_inputs |-> PadSegment(segment_list[Len(model_inputs) + 1]),
            music_masks  |-> InputMasks(Len(segment_list[Len(model_inputs) + 1]),
                                        PATCH_LENGTH)])
    /\ UNCHANGED <<estVars, seqVars, thrVars, cpc, input_len, seg_i,
                   segment_list, feature_weights>>

\* after the loop: full_chunk_cnt, remain_chunk_len and feature_weights
WeighSegments ==
    /\ cpc = "embed" /\ Len(model_inputs) = Len(segment_list)
    /\ feature_weights' = FeatureWeights(input_len, PATCH_LENGTH)
    /\ cpc' = "done"
    /\ UNCHANGED <<estVars, seqVars, thrVars, input_len, seg_i, segment_list,
                   model_inputs>>

NextClamp == AppendSegment \/ ReplaceLastSegment \/ EmbedSegment \/ WeighSegments

SpecClamp == InitClamp /\ [][NextClamp]_vars

\* ------------------------------------------------------------ claims ----
\* features is a matrix the data model allows: at least one row, rows of
\* one length, finite entries
ValidFeatures(f) == Homogeneous(f) /\ Len(f.rows) >= 1 /\ AllFinite(AsArray(f))

\* the sum of a sequence of integers
IntSum(s) ==
    LET acc[i \in 0..Len(s)] == IF i = 0 THEN 0 ELSE acc[i - 1] + s[i]
    IN  acc[Len(s)]

\* the integer entry of a matrix of sample rows
Entry(f, i, j) == f.rows[i][j].n

\* the sum of column j
ColSum(f, j) == IntSum([i \in 1..Len(f.rows) |-> Entry(f, i, j)] \o <<>>)

\* the sum over the rows of the product of the entries of columns j and k
ColProdSum(f, j, k) ==
    IntSum([i \in 1..Len(f.rows) |-> Entry(f, i, j) * Entry(f, i, k)] \o <<>>)

\* C1: an estimator called with an empty matrix, a non-finite entry or a
\* ragged matrix fails with InvalidInputError and returns no pair.
C1_InvalidInputRejected ==
    (out.status # "none" /\ ~ValidFeatures(features))
        => out.status = "InvalidInputError"

\* C2: for N >= 2 rows MaxLikelihoodEstimator returns the column averages
\* and the unbiased sample covariance: mean[j] = S_j / N and
\* covariance[j][k] = (N * sum_i x_ij x_ik - S_j S_k) / (N (N - 1)), which is
\* sum_i (x_ij - mean[j]) (x_ik - mean[k]) / (N - 1) with the mean multiplied
\* out; nothing is added to it.  (The D * D entries are compared; for D = 1
\* numpy hands the single entry back as a 0-d array.)
C2_MeanAndUnbiasedCovariance ==
    (est.kind = "mle" /\ out.status # "none"
        /\ ValidFeatures(features) /\ Len(features.rows) >= 2)
    => LET N == Len(features.rows)
           D == features.cols
       IN  /\ out.status = "returned"
           /\ out.mean.shape = <<D>>
           /\ \A j \in 1..D : At(out.mean, 1, j) = RNorm(ColSum(features, j), N)
           /\ \A j \in 1..D : \A k \in 1..D :
                 At(out.cov, j, k) =
                     RNorm(N * ColProdSum(features, j, k)
                               - ColSum(features, j) * ColSum(features, k),
                           N * (N - 1))

\* a three-row matrix with a fractional mean and a nonzero covariance between
\* two columns went through MaxLikelihoodEstimator
C2_Witness ==
    /\ est.kind = "mle" /\ out.status = "returned"
    /\ Len(features.rows) = 3 /\ features.cols = 2
    /\ At(out.mean, 1, 1).d = 3
    /\ RLess(At(out.cov, 1, 2), R(0))

\* C3: for a valid N x D matrix both estimators return a mean of length D
\* and a two-dimensional D x D covariance with cov[j][k] = cov[k][j]
\* (an IEEE comparison: NaN equals nothing).
C3_ShapeAndSymmetry ==
    (out.status # "none" /\ ValidFeatures(features))
    => LET D == features.cols
       IN  /\ out.status = "returned"
           /\ out.mean.shape = <<D>>
           /\ out.cov.shape = <<D, D>>
           /\ \A j \in 1..D : \A k \in 1..D :
                 At(out.cov, j, k) # NaN /\ At(out.cov, j, k) = At(out.cov, k, j)

\* C4: for a one-row matrix MaxLikelihoodEstimator raises nothing and
\* returns the row as the mean and the all-zero D x D matrix as covariance.
C4_SingleRowZeroCovariance ==
    (est.kind = "mle" /\ out.status # "none"
        /\ ValidFeatures(features) /\ Len(features.rows) = 1)
    => LET D == features.cols
       IN  /\ out.status = "returned"
           /\ out.mean = Array1(D, features.rows[1])
           /\ out.cov.shape = <<D, D>>
           /\ \A j \in 1..D : \A k \in 1..D : At(out.cov, j, k) = R(0)

\* what a newly constructed estimator of est's class and configuration
\* returns for f
FreshResult(f) ==
    IF est.kind = "mle" THEN MLEstimateParameters(f, np2)
    ELSE IF ~CheckArrayOk(f) THEN Raised("ValueError")
    ELSE LET fit == LedoitWolfFit(Unfitted, f, est.block_size)
         IN  Returned(fit.location_, fit.covariance_)

\* C6: whatever calls were made on the estimator before, the latest call
\* returned (or raised) what a newly constructed estimator of the same
\* configuration returns for the same matrix.
C6_HistoryIndependent == out.status # "none" => out = FreshResult(features)

\* a candidate of three rows was fitted, with a positive shrinkage, by a
\* LeoditWolfEstimator that had fitted a reference corpus before
C6_Witness ==
    /\ est.kind = "lw" /\ pc = "done" /\ calls >= 2
    /\ out.status = "returned"
    /\ Len(features.rows) = 3 /\ features.cols = 2
    /\ RLess(R(0), model.shrinkage_)

\* C5: when two threads call estimate_parameters of one estimator with
\* different matrices, each call returns the pair of its own matrix: what
\* a newly constructed estimator returns for it.
C5_ConcurrentCallsIsolated ==
    \A t \in Threads :
        tout[t].status # "none"
            => (est.kind = "mle" /\ tout[t] = MLEstimateParameters(tfeat[t], np2))
               \/ (est.kind = "lw" /\ tout[t].status = "returned"
                   /\ LET fit == LedoitWolfFit(Unfitted, tfeat[t], est.block_size)
                      IN  /\ tout[t].mean = fit.location_
                          /\ tout[t].cov = fit.covariance_)

\* C7: a call leaves the estimator as it was constructed: after any call
\* the LedoitWolf object held in model has no fitted attribute.
C7_NoSideEffects == out.status # "none" => model = Unfitted

\* C8: the pair a LeoditWolfEstimator returns is the pair the default
\* block_size gives for the same matrix; est.block_size ranges over every
\* size from 1 up to the dimensionality and over the default, which is
\* above it, so any two block sizes give the same pair.
C8_BlockSizeIrrelevant ==
    (est.kind = "lw" /\ out.status = "returned")
    => LET fit == LedoitWolfFit(Unfitted, features, DefaultBlockSize)
       IN  out.mean = fit.location_ /\ out.cov = fit.covariance_

\* a block size that cuts three columns into a block of two and a rest of
\* one was used on a matrix that is shrunk
C8_Witness ==
    /\ est.kind = "lw" /\ est.block_size = 2
    /\ out.status = "returned"
    /\ features.cols = 3
    /\ RLess(R(0), model.shrinkage_)

\* the sample covariance of the rows, normalised by N:
\* S[j][k] = (N * sum_i x_ij x_ik - S_j S_k) / N^2
SampleCov(f, j, k) ==
    LET N == Len(f.rows)
    IN  RNorm(N * ColProdSum(f, j, k) - ColSum(f, j) * ColSum(f, k), N * N)

\* trace(S) / D, the scale of the identity target
TargetScale(f) ==
    RDiv(RSum([j \in 1..f.cols |-> SampleCov(f, j, j)] \o <<>>), R(f.cols))

\* C9: for a valid matrix LeoditWolfEstimator returns the column averages
\* and (1 - s) S + s T, where S is the sample covariance of the rows about
\* their mean (normalised by N), T = (trace(S) / D) I, s is the fitted
\* shrinkage_ and 0 <= s <= 1.  When s > 0 the weight s * trace(S) / D of
\* the identity is positive, so that the covariance, which is that positive
\* multiple of the identity plus the non-negative multiple (1 - s) of the
\* Gram matrix S, has no eigenvalue below s * trace(S) / D: it is positive
\* definite.
C9_ShrunkCovariance ==
    (est.kind = "lw" /\ out.status # "none" /\ ValidFeatures(features))
    => LET N == Len(features.rows)
           D == features.cols
           s == model.shrinkage_
       IN  /\ out.status = "returned"
           /\ \A j \in 1..D : At(out.mean, 1, j) = RNorm(ColSum(features, j), N)
           /\ ~RLess(s, R(0)) /\ ~RLess(R(1), s)
           /\ out.cov.shape = <<D, D>>
           /\ \A j \in 1..D : \A k \in 1..D :
                 At(out.cov, j, k) =
                     RAdd(RMul(RSub(R(1), s), SampleCov(features, j, k)),
                          IF j = k THEN RMul(s, TargetScale(features)) ELSE R(0))
           /\ RLess(R(0), s) => RLess(R(0), RMul(s, TargetScale(features)))

\* a three-column matrix of three rows, whose sample covariance is singular,
\* was shrunk with 0 < s < 1 about a mean that is not zero
C9_Witness ==
    /\ est.kind = "lw" /\ out.status = "returned"
    /\ features.cols = 3 /\ Len(features.rows) = 3
    /\ RLess(R(0), model.shrinkage_) /\ RLess(model.shrinkage_, R(1))
    /\ RLess(R(0), At(out.mean, 1, 1))
    /\ At(out.cov, 1, 2) # R(0)

\* C10: when extract_feature has its feature weights, for n = input_len >= 1
\* patches and L = PATCH_LENGTH: there are ceil(n / L) segments, as many
\* calls of the model and as many weights; every segment handed to the model
\* has L rows and a mask of L entries that is 1 at each row of the segment
\* and 0 at each pad row, the ones first; every weight is in 1..L and the
\* weights sum to n.
C10_SegmentsAndWeights ==
    cpc = "done"
    => LET n     == input_len
           L     == PATCH_LENGTH
           count == (n + L - 1) \div L
       IN  /\ Len(segment_list) = count
           /\ Len(model_inputs) = count
           /\ Len(feature_weights) = count
           /\ \A k \in 1..Len(model_inputs) :
                 /\ Len(model_inputs[k].music_inputs) = L
                 /\ Len(model_inputs[k].music_masks) = L
                 /\ \A r \in 1..L :
                       /\ model_inputs[k].music_masks[r] \in {0, 1}
                       /\ model_inputs[k].music_masks[r] = 1
                            <=> model_inputs[k].music_inputs[r] # 0
                       /\ (r < L /\ model_inputs[k].music_masks[r] = 0)
                            => model_inputs[k].music_masks[r + 1] = 0
           /\ \A k \in 1..Len(feature_weights) : feature_weights[k] \in 1..L
           /\ IntSum(feature_weights) = n

\* a piece longer than one segment whose length is no multiple of
\* PATCH_LENGTH was segmented and weighted
C10_Witness ==
    /\ cpc = "done"
    /\ input_len > PATCH_LENGTH
    /\ input_len % PATCH_LENGTH # 0
    /\ Len(feature_weights) >= 2

=============================================================================
